---- MODULE Spec2Model ----
(***************************************************************************)
(* Model of the BCN Art Compass Telegram relay (src/bot.py).               *)
(*                                                                         *)
(* Texts are sequences of one-character strings, so that the regular       *)
(* expression rewrites, strip() and the slicing of the source act on       *)
(* characters as they do in Python.  The decorative markers of the source  *)
(* are spelled with one opaque element per character of the source file,   *)
(* "U+" and the code point in hexadecimal, as is every other character     *)
(* that TLA+ cannot write.                                                 *)
(***************************************************************************)
EXTENDS Integers, Sequences, FiniteSets, TLC

\* ------------------------------------------------------------------ texts

NL == "\n"

\* What \s matches in a str pattern and what str.strip() removes: the characters
\* for which str.isspace() holds.  A character that TLA+ has no escape for is
\* spelled by its code point.
WhitespaceChars ==
    {"\t", NL, "U+000B", "\f", "\r", "U+001C", "U+001D", "U+001E", "U+001F", " ",
     "U+0085", "U+00A0", "U+1680", "U+2000", "U+2001", "U+2002", "U+2003",
     "U+2004", "U+2005", "U+2006", "U+2007", "U+2008", "U+2009", "U+200A",
     "U+2028", "U+2029", "U+202F", "U+205F", "U+3000"}

AsciiDigits == {"0", "1", "2", "3", "4", "5", "6", "7", "8", "9"}

\* The code points, less their last hexadecimal digit, of the ten-digit blocks
\* of Unicode decimal digits that start at a code point ending in 0, in the
\* Unicode 15.1 tables of the interpreter the bot's dependencies are installed
\* for (CPython 3.13).
DigitBlocksAt0 ==
    {"066", "06F", "07C", "0E5", "0ED", "0F2", "104", "109", "17E", "181",
     "19D", "1A8", "1A9", "1B5", "1BB", "1C4", "1C5", "A62", "A8D", "A90",
     "A9D", "A9F", "AA5", "ABF", "FF1", "104A", "10D3", "110F", "111D",
     "112F", "1145", "114D", "1165", "116C", "1173", "118E", "1195", "11C5",
     "11D5", "11DA", "11F5", "16A6", "16AC", "16B5", "1E14", "1E2F", "1E4F",
     "1E95", "1FBF"}

\* The same for the blocks that start at a code point ending in 6.
DigitBlocksAt6 ==
    {"096", "09E", "0A6", "0AE", "0B6", "0BE", "0C6", "0CE", "0D6", "0DE",
     "194", "1106", "1113"}

\* The mathematical digits U+1D7CE to U+1D7FF.
MathDigits ==
    {"U+1D7CE", "U+1D7CF"}
        \cup {"U+1D7" \o a \o b :
                 a \in {"D", "E", "F"},
                 b \in AsciiDigits \cup {"A", "B", "C", "D", "E", "F"}}

\* What \d matches in a str pattern: every Unicode decimal digit (category Nd).
DigitChars ==
    AsciiDigits
        \cup {"U+" \o p \o d : p \in DigitBlocksAt0, d \in AsciiDigits}
        \cup {"U+" \o p \o d : p \in DigitBlocksAt6,
                                d \in {"6", "7", "8", "9", "A", "B", "C", "D", "E", "F"}}
        \cup MathDigits

Min(S) == CHOOSE x \in S : \A y \in S : x <= y

\* The first index j >= i whose character is outside Class (Len(s) + 1 when the
\* run reaches the end of the text): where a greedy Class+ started at i stops.
RunEnd(s, i, Class) ==
    CHOOSE j \in i..(Len(s) + 1) :
        /\ (j = Len(s) + 1 \/ s[j] \notin Class)
        /\ \A k \in i..(j - 1) : s[k] \in Class

\* The first index j >= i whose character is in Stop (Len(s) + 1 when there is
\* none): where a greedy [^Stop]+ started at i stops.
RunEndNot(s, i, Stop) ==
    CHOOSE j \in i..(Len(s) + 1) :
        /\ (j = Len(s) + 1 \/ s[j] \in Stop)
        /\ \A k \in i..(j - 1) : s[k] \notin Stop

\* lit occurs in s at index j.
LiteralAt(s, j, lit) ==
    /\ j + Len(lit) - 1 <= Len(s)
    /\ \A k \in 1..Len(lit) : s[j + k - 1] = lit[k]

\* ---------------------------------------------- _format_for_telegram markers

BoldMarker == <<"U+00F0", "U+0178", "U+017D", "U+00A8">>
WhyMarker == <<"U+00F0", "U+0178", "U+2019", "U+00A1">>
WhenMarker == <<"U+00F0", "U+0178", "U+201C", "U+2026">>
WhereMarker == <<"U+00F0", "U+0178", "U+201C">>
LocationMarker == <<"U+00F0", "U+0178", "U+201C">>
PriceMarker == <<"U+00F0", "U+0178", "U+2019", "U+00B0">>
MoreInfoMarker == <<"U+00F0", "U+0178", "U+201D", "U+2014">>
ListMarker == <<"U+00EF", "U+00B8", "U+00E2", "U+0192", "U+00A3">>

WhyYou == <<"W", "h", "y", " ", "y", "o", "u">>
WhenLabel == <<"W", "h", "e", "n", ":">>
WhereLabel == <<"W", "h", "e", "r", "e", ":">>
LocationLabel == <<"L", "o", "c", "a", "t", "i", "o", "n", ":">>
PriceLabel == <<"P", "r", "i", "c", "e", ":">>
MoreInfoLabel == <<"M", "o", "r", "e", " ", "I", "n", "f", "o", ":">>

\* re.sub(r'\*\*([^*]+)\*\*', marker + r' \1', text): the pattern matches at j.
BoldAt(s, j) ==
    /\ j + 4 <= Len(s)
    /\ s[j] = "*"
    /\ s[j + 1] = "*"
    /\ LET e == RunEndNot(s, j + 2, {"*"})
       IN  /\ e > j + 2
           /\ e + 1 <= Len(s)
           /\ s[e] = "*"
           /\ s[e + 1] = "*"

RECURSIVE SubBoldFrom(_, _)
SubBoldFrom(s, i) ==
    LET starts == {j \in i..Len(s) : BoldAt(s, j)}
    IN  IF starts = {} THEN SubSeq(s, i, Len(s))
        ELSE LET j == Min(starts)
                 e == RunEndNot(s, j + 2, {"*"})
             IN  SubSeq(s, i, j - 1) \o BoldMarker \o <<" ">>
                     \o SubSeq(s, j + 2, e - 1) \o SubBoldFrom(s, e + 2)

SubBold(s) == SubBoldFrom(s, 1)

\* re.sub(r'(Why you[^:]*:)', marker + r' \1', text): the pattern matches at j.
WhyAt(s, j) ==
    /\ LiteralAt(s, j, WhyYou)
    /\ RunEndNot(s, j + Len(WhyYou), {":"}) <= Len(s)

RECURSIVE SubWhyFrom(_, _)
SubWhyFrom(s, i) ==
    LET starts == {j \in i..Len(s) : WhyAt(s, j)}
    IN  IF starts = {} THEN SubSeq(s, i, Len(s))
        ELSE LET j == Min(starts)
                 c == RunEndNot(s, j + Len(WhyYou), {":"})
             IN  SubSeq(s, i, j - 1) \o WhyMarker \o <<" ">>
                     \o SubSeq(s, j, c) \o SubWhyFrom(s, c + 1)

SubWhy(s) == SubWhyFrom(s, 1)

\* re.sub(r'(<label>)', marker + r' \1', text) for a literal label.
RECURSIVE SubLabelFrom(_, _, _, _)
SubLabelFrom(s, i, label, marker) ==
    LET starts == {j \in i..Len(s) : LiteralAt(s, j, label)}
    IN  IF starts = {} THEN SubSeq(s, i, Len(s))
        ELSE LET j == Min(starts)
             IN  SubSeq(s, i, j - 1) \o marker \o <<" ">> \o label
                     \o SubLabelFrom(s, j + Len(label), label, marker)

SubLabel(s, label, marker) == SubLabelFrom(s, 1, label, marker)

\* re.sub(r'^(\d+)\.\s+', '\n' + r'\1' + marker + ' ', text, flags=re.MULTILINE):
\* the pattern matches at j.
ListAt(s, j) ==
    /\ j <= Len(s)
    /\ (j = 1 \/ s[j - 1] = NL)
    /\ s[j] \in DigitChars
    /\ LET d == RunEnd(s, j, DigitChars)
       IN  /\ d + 1 <= Len(s)
           /\ s[d] = "."
           /\ s[d + 1] \in WhitespaceChars

RECURSIVE SubListFrom(_, _)
SubListFrom(s, i) ==
    LET starts == {j \in i..Len(s) : ListAt(s, j)}
    IN  IF starts = {} THEN SubSeq(s, i, Len(s))
        ELSE LET j == Min(starts)
                 d == RunEnd(s, j, DigitChars)
                 w == RunEnd(s, d + 1, WhitespaceChars)
             IN  SubSeq(s, i, j - 1) \o <<NL>> \o SubSeq(s, j, d - 1)
                     \o ListMarker \o <<" ">> \o SubListFrom(s, w)

SubList(s) == SubListFrom(s, 1)

\* re.sub(r'\n{3,}', '\n\n', text): the pattern matches at j.
BlankRunAt(s, j) ==
    /\ j + 2 <= Len(s)
    /\ s[j] = NL
    /\ s[j + 1] = NL
    /\ s[j + 2] = NL

RECURSIVE SubBlankFrom(_, _)
SubBlankFrom(s, i) ==
    LET starts == {j \in i..Len(s) : BlankRunAt(s, j)}
    IN  IF starts = {} THEN SubSeq(s, i, Len(s))
        ELSE LET j == Min(starts)
                 e == RunEnd(s, j, {NL})
             IN  SubSeq(s, i, j - 1) \o <<NL, NL>> \o SubBlankFrom(s, e)

SubBlank(s) == SubBlankFrom(s, 1)

\* str.strip()
Strip(s) ==
    LET first == RunEnd(s, 1, WhitespaceChars)
    IN  IF first > Len(s) THEN <<>>
        ELSE LET last == CHOOSE j \in first..Len(s) :
                             /\ s[j] \notin WhitespaceChars
                             /\ \A k \in (j + 1)..Len(s) : s[k] \in WhitespaceChars
             IN  SubSeq(s, first, last)

\* The rewrites of _format_for_telegram.
Rule(name, s) ==
    CASE name = "bold" -> SubBold(s)
      [] name = "why" -> SubWhy(s)
      [] name = "when" -> SubLabel(s, WhenLabel, WhenMarker)
      [] name = "where" -> SubLabel(s, WhereLabel, WhereMarker)
      [] name = "location" -> SubLabel(s, LocationLabel, LocationMarker)
      [] name = "price" -> SubLabel(s, PriceLabel, PriceMarker)
      [] name = "more_info" -> SubLabel(s, MoreInfoLabel, MoreInfoMarker)
      [] name = "list" -> SubList(s)
      [] name = "blank" -> SubBlank(s)
      [] name = "strip" -> Strip(s)

\* The blank lines removed before the numbered lists are rewritten.
FormatRulesBlankFirst ==
    <<"bold", "why", "when", "where", "location", "price", "more_info",
      "blank", "list", "strip">>

\* The rewrites in the order of the source.
FormatRules ==
    <<"bold", "why", "when", "where", "location", "price", "more_info",
      "list", "blank", "strip">>

\* text = rule(text), rule after rule: each rewrite is applied to the value the
\* one before it returned.
RECURSIVE ApplyRules(_, _)
ApplyRules(rules, text) ==
    IF rules = <<>> THEN text
    ELSE CHOOSE r \in {Rule(rules[Len(rules)], t) :
                          t \in {ApplyRules(SubSeq(rules, 1, Len(rules) - 1), text)}} : TRUE

_format_for_telegram(text) == ApplyRules(FormatRules, text)

\* --------------------------------------------------- handle_message: length

TelegramLimit == 4000
TruncateKeep == 3996

Ellipsis == <<".", ".", ".">>

\* A cut at the limit itself.
TruncateAtLimit(formatted_text) ==
    IF Len(formatted_text) > TelegramLimit
    THEN SubSeq(formatted_text, 1, TelegramLimit) \o Ellipsis
    ELSE formatted_text

\* if len(formatted_text) > 4000: formatted_text = formatted_text[:3996] + "..."
Truncate(formatted_text) ==
    IF Len(formatted_text) > TelegramLimit
    THEN SubSeq(formatted_text, 1, TruncateKeep) \o Ellipsis
    ELSE formatted_text

\* ------------------------------------------------------------ optional values

\* Python's None and a present value, as a tuple of no or one element.
NoneV == <<>>
Some(v) == <<v>>
IsNone(o) == Len(o) = 0
Get(o) == o[1]

\* ---------------------------------------------------------------- JSON values

RECURSIVE NumDigits(_)
NumDigits(n) == IF n < 10 THEN 1 ELSE 1 + NumDigits(n \div 10)

\* A value of a JSON body: its type, its text (a string), its number (an
\* integer; 0/1 for a boolean; the number of elements or members of an array
\* or an object), the number of digits of the longest integer written in it,
\* and whether it is nested deeper than the interpreter's parser recurses.
\* "bigint" is an integer too long to write out, known by the number of its
\* digits; it is not 0.  JArr(n) and JObj(n) hold n nulls.
JValue(t, str, num, digits, deep) ==
    [t |-> t, str |-> str, num |-> num, digits |-> digits, deep |-> deep]

JStr(s) == JValue("str", s, 0, 0, FALSE)
JNum(n) == JValue("num", <<>>, n, NumDigits(n), FALSE)
JBigInt(digits) == JValue("bigint", <<>>, 0, digits, FALSE)
JBool(b) == JValue("bool", <<>>, IF b THEN 1 ELSE 0, 0, FALSE)
JNull == JValue("null", <<>>, 0, 0, FALSE)
JArr(n) == JValue("arr", <<>>, n, 0, FALSE)
JObj(n) == JValue("obj", <<>>, n, 0, FALSE)
JDeepArr == JValue("arr", <<>>, 1, 0, TRUE)

\* sys.int_info.default_max_str_digits: the longest integer int() converts.
MaxStrDigits == 4300

\* An array of one integer, and an object of one member that is an integer,
\* one digit too long; an object of one member that is JDeepArr.
JBigArr == JValue("arr", <<>>, 1, MaxStrDigits + 1, FALSE)
JBigObj == JValue("obj", <<>>, 1, MaxStrDigits + 1, FALSE)
JDeepObj == JValue("obj", <<>>, 1, 0, TRUE)

\* What json.loads raises on the text of the value ("" when it parses it).
JsonRaises(v) ==
    IF v.digits > MaxStrDigits THEN "ValueError"
    ELSE IF v.deep THEN "RecursionError"
    ELSE ""

\* A test for None alone.
TruthyNotNone(v) == v.t # "null"

\* Python truthiness, as `or` tests it.
Truthy(v) ==
    CASE v.t = "str" -> Len(v.str) > 0
      [] v.t = "num" -> v.num # 0
      [] v.t = "bigint" -> TRUE
      [] v.t = "bool" -> v.num = 1
      [] v.t = "null" -> FALSE
      [] OTHER -> v.num > 0

\* ------------------------------------------------------------- call_bcn_api

Apology ==
    <<"I", " ", "c", "o", "u", "l", "d", "n", "'", "t", " ", "r", "e", "a",
      "c", "h", " ", "t", "h", "e", " ", "B", "C", "N", " ", "A", "r", "t",
      " ", "C", "o", "m", "p", "a", "s", "s", " ", "b", "a", "c", "k", "e",
      "n", "d", " ", "r", "i", "g", "h", "t", " ", "n", "o", "w", ".", " ",
      "P", "l", "e", "a", "s", "e", " ", "t", "r", "y", " ", "a", "g", "a",
      "i", "n", " ", "i", "n", " ", "a", " ", "m", "o", "m", "e", "n", "t",
      ".">>

NoResponse ==
    <<"N", "o", " ", "r", "e", "s", "p", "o", "n", "s", "e", " ", "f", "r",
      "o", "m", " ", "B", "C", "N", " ", "A", "r", "t", " ", "C", "o", "m",
      "p", "a", "s", "s", ".">>

\* What one call comes to.  httpx.AsyncClient(...) fails on the environment it
\* reads (a proxy URL of an unknown scheme, a certificate file that is not
\* there) and nothing is posted ("client_error", with the error raised); or
\* the POST fails to connect, times out, is cancelled with its task, or brings
\* a response with a status and a body.  A body is bytes that are no text
\* ("undecodable"), text that is not JSON ("invalid"), the text of a JSON
\* object ("object": its `response` member, if it has one, and then its other
\* members, as the object they make) or of another JSON value ("value").
Exchange(kind, error, status, body, response, others, value) ==
    [kind |-> kind, error |-> error, status |-> status, body |-> body,
     response |-> response, others |-> others, value |-> value]

ClientError(error) ==
    Exchange("client_error", error, 0, "none", NoneV, JObj(0), JNull)
ConnectError ==
    Exchange("connect_error", "httpx.ConnectError", 0, "none", NoneV, JObj(0), JNull)
Timeout ==
    Exchange("timeout", "httpx.ReadTimeout", 0, "none", NoneV, JObj(0), JNull)
Cancelled ==
    Exchange("cancelled", "asyncio.CancelledError", 0, "none", NoneV, JObj(0), JNull)
UndecodableBody(status) ==
    Exchange("response", "", status, "undecodable", NoneV, JObj(0), JNull)
InvalidBody(status) ==
    Exchange("response", "", status, "invalid", NoneV, JObj(0), JNull)
ObjectBody(status, response, others) ==
    Exchange("response", "", status, "object", response, others, JNull)
ValueBody(status, value) ==
    Exchange("response", "", status, "value", NoneV, JObj(0), value)

\* resp.raise_for_status() passes: Response.is_success.
IsSuccess(status) == 200 <= status /\ status <= 299

Returned(value) == [exc |-> "", value |-> value]
Raised(exc) == [exc |-> exc, value |-> JNull]

\* resp.json(): the exception it raises, or the value it returns (for an
\* object, its `response` member, or None when it has none).  The parser
\* reads the whole body, in the order it is written.
ParseJson(exch) ==
    IF exch.body = "undecodable" THEN Raised("UnicodeDecodeError")
    ELSE IF exch.body = "invalid" THEN Raised("json.JSONDecodeError")
    ELSE LET v == IF exch.body = "value" THEN exch.value
                  ELSE IF IsNone(exch.response) THEN JNull
                  ELSE Get(exch.response)
         IN  IF JsonRaises(v) # "" THEN Raised(JsonRaises(v))
             ELSE IF exch.body = "object" /\ JsonRaises(exch.others) # ""
             THEN Raised(JsonRaises(exch.others))
             ELSE Returned(v)

\* The body of the try block: the exception it raises, or the value it returns.
TryExchange(exch) ==
    IF exch.kind \in {"connect_error", "timeout", "cancelled"} THEN Raised(exch.error)
    ELSE IF ~IsSuccess(exch.status) THEN Raised("httpx.HTTPStatusError")
    ELSE LET data == ParseJson(exch)
         IN  IF data.exc # "" THEN data
             ELSE IF exch.body = "value" THEN Raised("AttributeError")
             ELSE Returned(IF Truthy(data.value) THEN data.value ELSE JStr(NoResponse))

\* The exceptions that are no Exception: BaseException's other subclasses.
NotExceptions == {"asyncio.CancelledError", "KeyboardInterrupt", "SystemExit",
                  "GeneratorExit", "BaseExceptionGroup"}

\* except Exception: catches every exception that is an Exception.
ExceptException(exc) == exc \notin NotExceptions

\* The request of one call: the JSON payload posted to <base URL>/chat.
Payload(user_id, message) == [user_id |-> user_id, message |-> message]

\* The client is built outside the try: its error leaves the function.
call_bcn_api(user_id, message, exch) ==
    IF exch.kind = "client_error" THEN Raised(exch.error)
    ELSE LET out == TryExchange(exch)
         IN  IF out.exc # "" /\ ExceptException(out.exc)
             THEN Returned(JStr(Apology))
             ELSE out

\* --------------------------------------------------------- _telegram_user_id

Digits == <<"0", "1", "2", "3", "4", "5", "6", "7", "8", "9">>

RECURSIVE NatStr(_)
NatStr(n) == IF n < 10 THEN Digits[n + 1] ELSE NatStr(n \div 10) \o Digits[(n % 10) + 1]

\* str(int), as an f-string renders it.
IntStr(n) == IF n < 0 THEN "-" \o NatStr(0 - n) ELSE NatStr(n)

\* An update's effective_user is None or has an id, an optional username and an
\* optional first name; its effective_chat is None or has an id.
User(id, username, first_name) ==
    [id |-> id, username |-> username, first_name |-> first_name]

HasUsername(user) == ~IsNone(user) /\ ~IsNone(Get(user).username)
                         /\ Get(Get(user).username) # ""

HasUserId(user) == ~IsNone(user) /\ Get(user).id # 0

HasChatId(chat) == ~IsNone(chat) /\ Get(chat) # 0

_telegram_user_id(user, chat) ==
    IF HasUsername(user) THEN "tg_" \o Get(Get(user).username)
    ELSE IF HasUserId(user) THEN "tg_id_" \o IntStr(Get(user).id)
    ELSE IF HasChatId(chat) THEN "tg_chat_" \o IntStr(Get(chat))
    ELSE "tg_unknown"

\* ------------------------------------------------------------------- updates

\* An inbound update: the field of the Update that holds its message ("message"
\* for a new message, "edited_message" for an edit, "channel_post" for a post in
\* a channel; update.message is None for the last two), the text of the
\* effective message, the length of the bot_command entity that starts its text
\* (0 when its first entity is no such thing), effective_user, effective_chat.
Update(kind, text, command, user, chat) ==
    [kind |-> kind, text |-> text, command |-> command, user |-> user, chat |-> chat]

\* update.message is not None.
HasMessage(u) == u.kind = "message"

\* CommandHandler("start", ...), CommandHandler("help", ...): the commands.
StartCommand == <<"s", "t", "a", "r", "t">>
HelpCommand == <<"h", "e", "l", "p">>

\* The username of the bot the token belongs to.
BotUsername == <<"t", "h", "i", "s", "b", "o", "t">>

UpperCase ==
    <<"A", "B", "C", "D", "E", "F", "G", "H", "I", "J", "K", "L", "M",
      "N", "O", "P", "Q", "R", "S", "T", "U", "V", "W", "X", "Y", "Z">>

LowerCase ==
    <<"a", "b", "c", "d", "e", "f", "g", "h", "i", "j", "k", "l", "m",
      "n", "o", "p", "q", "r", "s", "t", "u", "v", "w", "x", "y", "z">>

\* str.lower() of a command or a username: letters A-Z, a-z, digits, "_".
Lower(s) ==
    [i \in 1..Len(s) |->
        IF \E k \in 1..26 : UpperCase[k] = s[i]
        THEN LowerCase[CHOOSE k \in 1..26 : UpperCase[k] = s[i]]
        ELSE s[i]]

\* filters.TEXT: the effective message has a text that is not empty.
TextFilter(u) == ~IsNone(u.text) /\ Get(u.text) # <<>>

\* filters.COMMAND: the text starts with a bot_command entity.
CommandFilter(u) == u.command > 0

\* CommandHandler.check_update: the text starts with a bot_command entity whose
\* command, text[1:length] up to its first "@", is the handler's in lower case,
\* and which names no bot or this one; new and edited messages only.
CommandMatches(u, name) ==
    /\ u.kind \in {"message", "edited_message"}
    /\ CommandFilter(u)
    /\ TextFilter(u)
    /\ LET command == SubSeq(Get(u.text), 2, u.command)
           at == RunEndNot(command, 1, {"@"})
           bot == IF at > Len(command) THEN BotUsername
                  ELSE SubSeq(command, at + 1, RunEndNot(command, at + 1, {"@"}) - 1)
       IN  /\ Lower(SubSeq(command, 1, at - 1)) = name
           /\ Lower(bot) = Lower(BotUsername)

\* main: the handler the application dispatches the update to, the first of
\* the three, in the order of their registration, that takes it; "none" when
\* none of them does.
Route(u) ==
    IF CommandMatches(u, StartCommand) THEN "start"
    ELSE IF CommandMatches(u, HelpCommand) THEN "help"
    ELSE IF TextFilter(u) /\ ~CommandFilter(u) THEN "handle_message"
    ELSE "none"

\* ------------------------------------------------------------ start, help

\* first_name = user.first_name if user and user.first_name else "there"
FirstName(user) ==
    IF ~IsNone(user) /\ ~IsNone(Get(user).first_name) /\ Get(Get(user).first_name) # ""
    THEN Get(Get(user).first_name)
    ELSE "there"

StartMessage(user) ==
    "Hi " \o FirstName(user) \o "! I'm your BCN Art Compass bot.\n\n"
        \o "Tell me what kind of art or cultural events you're interested in, "
        \o "and I'll ask the BCN Art Compass AI to help you discover exhibitions "
        \o "and galleries in Barcelona."

\* The characters U+00C3 U+00A0 of the source are spelled <U+00C3><U+00A0>.
HelpMessage ==
    "You can send me any message like:\n"
        \o "- \"I love sculpture and don't like video art\"\n"
        \o "- \"What art exhibitions are happening this weekend?\"\n"
        \o "- \"I'm in Gr<U+00C3><U+00A0>cia, suggest something nearby\"\n\n"
        \o "I'll forward it to BCN Art Compass and reply with its recommendations."

\* ----------------------------------------------------------- handle_message

\* A guard that tests the text alone.
IgnoredNoText(u) == IsNone(u.text) \/ Get(u.text) = <<>>

\* if not update.message or not update.message.text: return
Ignored(u) == ~HasMessage(u) \/ IsNone(u.text) \/ Get(u.text) = <<>>

\* The text the reply carries, from the text call_bcn_api returned.
ReplyText(response_text) == Truncate(_format_for_telegram(response_text))

\* ---------------------------------------------------------------- the state

NumHandlers == 2
Handlers == 1..NumHandlers

VARIABLES
    pc,         \* per handler: where the handling of its update stands: "idle",
                \* "pending" (received), "typing", "await" and "closing" (inside
                \* send_chat_action, client.post and the closing of the client),
                \* "reply" (inside reply_text), "done", "raised", "unhandled"
    update,     \* per handler: the update it was given
    typing,     \* per handler: its "typing" chat action: "none", "requested",
                \* "sent" or "failed"
    calls,      \* per handler: the payloads it posted to the backend
    exchange,   \* per handler: what its backend exchange came to
    sent,       \* per handler: the replies it handed to reply_text, [chat, text]
    backend,    \* the backend: "up", "down" or "slow"
    fn_pc,      \* a single call of one function: "off", "ready", ..., "done"
    fn_in,      \* its arguments
    fn_out      \* its results

vars == <<pc, update, typing, calls, exchange, sent, backend, fn_pc, fn_in, fn_out>>
bot_vars == <<pc, update, typing, calls, exchange, sent, backend>>
fn_vars == <<fn_pc, fn_in, fn_out>>

\* The handler has returned, or an exception has left it.
Finished == {"done", "raised"}

\* The application is through with the update.
Ended == Finished \cup {"unhandled"}

\* ------------------------------------------------------- the updates received

Ana == Some(User(42, Some("alice"), Some("Ana")))
Anonymous == Some(User(7, NoneV, NoneV))

Slash(command) == <<"/">> \o command

\* "/start", as it is, in capitals, with an argument and with the name of the
\* bot, from users with and without a first name, and as an edit.
StartUpdates ==
    {Update("message", Some(t), 6, Ana, Some(42)) :
        t \in {Slash(StartCommand), <<"/", "S", "T", "A", "R", "T">>,
               Slash(StartCommand) \o <<" ", "n", "o", "w">>}}
        \cup {Update("message", Some(Slash(StartCommand)), 6, u, Some(42)) :
                 u \in {Anonymous, NoneV}}
        \cup {Update("message", Some(Slash(StartCommand) \o <<"@">> \o BotUsername),
                     14, Ana, Some(42)),
              Update("edited_message", Some(Slash(StartCommand)), 6, Ana, Some(42))}

HelpUpdates ==
    {Update(k, Some(Slash(HelpCommand)), 5, Ana, Some(42)) :
        k \in {"message", "edited_message"}}

\* A text with the line ends and the spaces a client may send.
HiText == <<" ", "h", "i", "\r", "\n">>

TextUpdates ==
    {Update("message", Some(HiText), 0, Ana, Some(42)),
     Update("message", Some(<<"U+00A0">>), 0, Anonymous, Some(0 - 100)),
     Update("edited_message", Some(<<"h", "i">>), 0, Ana, Some(42)),
     Update("channel_post", Some(<<"h", "i">>), 0, NoneV, Some(0 - 100))}

\* Updates that no handler takes: another command, a command for another bot,
\* a message without text (a photo).
OtherUpdates ==
    {Update("message", Some(<<"/", "f", "o", "o">>), 4, Ana, Some(42)),
     Update("message", Some(Slash(StartCommand) \o <<"@", "o", "t", "h", "e", "r">>),
            12, Ana, Some(42)),
     Update("message", NoneV, 0, Ana, Some(42))}

BotUpdates == StartUpdates \cup HelpUpdates \cup TextUpdates \cup OtherUpdates

\* The updates that handlers running side by side are given.
ConcurrentBotUpdates ==
    {Update("message", Some(Slash(StartCommand)), 6, Ana, Some(42)),
     Update("message", Some(Slash(HelpCommand)), 5, Anonymous, Some(7)),
     Update("message", Some(HiText), 0, Ana, Some(42)),
     Update("message", NoneV, 0, Ana, Some(42))}

NoUpdate == Update("none", NoneV, 0, NoneV, NoneV)

\* ------------------------------------------------------------- the backend

BackendStates == {"up", "down", "slow"}

BoldReply == <<"*", "*", "G", "o", "*", "*", "\r", "\n", "\n", "1", ".", " ", "x">>

\* What an exchange can come to while the backend is in a state.
BackendOutcomes(state) ==
    IF state = "down" THEN {ConnectError}
    ELSE IF state = "slow" THEN {Timeout}
    ELSE {ObjectBody(200, Some(JStr(BoldReply)), JObj(0)),
          ObjectBody(200, NoneV, JObj(1)),
          ObjectBody(200, Some(JNum(42)), JObj(0)), InvalidBody(500)}

\* The errors of httpx.AsyncClient(...).
ClientErrors == {ClientError("ValueError"), ClientError("FileNotFoundError")}

\* ------------------------------------------------------------------- the bot

FnOff == fn_pc = "off" /\ fn_in = <<>> /\ fn_out = <<>>

Init ==
    /\ pc = [h \in Handlers |-> "idle"]
    /\ update = [h \in Handlers |-> NoUpdate]
    /\ typing = [h \in Handlers |-> "none"]
    /\ calls = [h \in Handlers |-> <<>>]
    /\ exchange = [h \in Handlers |-> NoneV]
    /\ sent = [h \in Handlers |-> <<>>]
    /\ backend \in BackendStates
    /\ FnOff

\* run_polling: the application receives an update.
Receive(h, u) ==
    /\ pc[h] = "idle"
    /\ pc' = [pc EXCEPT ![h] = "pending"]
    /\ update' = [update EXCEPT ![h] = u]
    /\ UNCHANGED <<typing, calls, exchange, sent, backend, fn_vars>>

\* Handlers that run one after the other: no update is dispatched while another
\* one is being handled.
SequentialUpdates(h) ==
    \A g \in Handlers \ {h} : pc[g] \in {"idle", "pending"} \cup Ended

\* concurrent_updates(True): an update is dispatched whatever the other handlers do.
ConcurrentUpdates(h) == TRUE

Dispatched(h, route) ==
    /\ pc[h] = "pending"
    /\ ConcurrentUpdates(h)
    /\ Route(update[h]) = route

\* No handler takes the update.
NoHandler(h) ==
    /\ Dispatched(h, "none")
    /\ pc' = [pc EXCEPT ![h] = "unhandled"]
    /\ UNCHANGED <<update, typing, calls, exchange, sent, backend, fn_vars>>

Reply(h, text) == [sent EXCEPT ![h] = Append(@, [chat |-> update[h].chat, text |-> text])]

\* start, to its await: update.message.reply_text(msg); update.message is None
\* for an edit.
Start(h) ==
    /\ Dispatched(h, "start")
    /\ IF HasMessage(update[h])
       THEN /\ sent' = Reply(h, StartMessage(update[h].user))
            /\ pc' = [pc EXCEPT ![h] = "reply"]
       ELSE /\ sent' = sent
            /\ pc' = [pc EXCEPT ![h] = "raised"]
    /\ UNCHANGED <<update, typing, calls, exchange, backend, fn_vars>>

\* help_command, to its await.
Help(h) ==
    /\ Dispatched(h, "help")
    /\ IF HasMessage(update[h])
       THEN /\ sent' = Reply(h, HelpMessage)
            /\ pc' = [pc EXCEPT ![h] = "reply"]
       ELSE /\ sent' = sent
            /\ pc' = [pc EXCEPT ![h] = "raised"]
    /\ UNCHANGED <<update, typing, calls, exchange, backend, fn_vars>>

\* handle_message, to its first await: the guard, then send_chat_action.
\* Past a guard that lets an update without message or text through, .text or
\* .strip() raises.
HandleMessageBegin(h) ==
    /\ Dispatched(h, "handle_message")
    /\ IF Ignored(update[h])
       THEN /\ pc' = [pc EXCEPT ![h] = "done"]
            /\ typing' = typing
       ELSE IF ~HasMessage(update[h]) \/ IsNone(update[h].text)
       THEN /\ pc' = [pc EXCEPT ![h] = "raised"]
            /\ typing' = typing
       ELSE /\ pc' = [pc EXCEPT ![h] = "typing"]
            /\ typing' = [typing EXCEPT ![h] = "requested"]
    /\ UNCHANGED <<update, calls, exchange, sent, backend, fn_vars>>

\* send_chat_action succeeds: call_bcn_api posts the request.
TypingDone(h) ==
    /\ pc[h] = "typing"
    /\ pc' = [pc EXCEPT ![h] = "await"]
    /\ typing' = [typing EXCEPT ![h] = "sent"]
    /\ calls' = [calls EXCEPT ![h] =
                    Append(@, Payload(_telegram_user_id(update[h].user, update[h].chat),
                                      Strip(Get(update[h].text))))]
    /\ UNCHANGED <<update, exchange, sent, backend, fn_vars>>

\* send_chat_action succeeds and call_bcn_api fails to build its client: the
\* error leaves call_bcn_api and handle_message, and nothing is posted.
ClientFail(h, exch) ==
    /\ pc[h] = "typing"
    /\ exch \in ClientErrors
    /\ pc' = [pc EXCEPT ![h] = "raised"]
    /\ typing' = [typing EXCEPT ![h] = "sent"]
    /\ exchange' = [exchange EXCEPT ![h] = Some(exch)]
    /\ UNCHANGED <<update, calls, sent, backend, fn_vars>>

\* send_chat_action fails: its error leaves handle_message.
TypingFail(h) ==
    /\ pc[h] = "typing"
    /\ pc' = [pc EXCEPT ![h] = "raised"]
    /\ typing' = [typing EXCEPT ![h] = "failed"]
    /\ UNCHANGED <<update, calls, exchange, sent, backend, fn_vars>>

\* The exchange ends: call_bcn_api has its value, or has caught the error, and
\* leaves the `async with`, which closes the client.
ExchangeDone(h, exch) ==
    /\ pc[h] = "await"
    /\ exch \in BackendOutcomes(backend)
    /\ exchange' = [exchange EXCEPT ![h] = Some(exch)]
    /\ pc' = [pc EXCEPT ![h] = "closing"]
    /\ UNCHANGED <<update, typing, calls, sent, backend, fn_vars>>

\* The client is closed: call_bcn_api returns, and handle_message goes on to
\* len(response_text), the formatting (both raise TypeError on a value that is
\* no string), the truncation and reply_text.
ClientClosed(h) ==
    /\ pc[h] = "closing"
    /\ LET req == calls[h][Len(calls[h])]
           out == call_bcn_api(req.user_id, req.message, Get(exchange[h]))
       IN  IF out.exc # "" \/ out.value.t # "str"
           THEN /\ pc' = [pc EXCEPT ![h] = "raised"]
                /\ sent' = sent
           ELSE /\ pc' = [pc EXCEPT ![h] = "reply"]
                /\ sent' = Reply(h, ReplyText(out.value.str))
    /\ UNCHANGED <<update, typing, calls, exchange, backend, fn_vars>>

\* reply_text succeeds: the handler goes on to its end.
ReplyDone(h) ==
    /\ pc[h] = "reply"
    /\ pc' = [pc EXCEPT ![h] = "done"]
    /\ UNCHANGED <<update, typing, calls, exchange, sent, backend, fn_vars>>

\* reply_text fails: its error leaves the handler.
ReplyFail(h) ==
    /\ pc[h] = "reply"
    /\ pc' = [pc EXCEPT ![h] = "raised"]
    /\ UNCHANGED <<update, typing, calls, exchange, sent, backend, fn_vars>>

\* The backend goes up, goes down or slows down.
BackendChange(state) ==
    /\ state # backend
    /\ backend' = state
    /\ UNCHANGED <<pc, update, typing, calls, exchange, sent, fn_vars>>

HandlerStep(h) ==
    \/ NoHandler(h)
    \/ Start(h)
    \/ Help(h)
    \/ HandleMessageBegin(h)
    \/ TypingDone(h)
    \/ TypingFail(h)
    \/ \E exch \in ClientErrors : ClientFail(h, exch)
    \/ \E exch \in BackendOutcomes(backend) : ExchangeDone(h, exch)
    \/ ClientClosed(h)
    \/ ReplyDone(h)
    \/ ReplyFail(h)

\* Several updates in flight.
Next ==
    \/ \E h \in Handlers, u \in ConcurrentBotUpdates : Receive(h, u)
    \/ \E h \in Handlers : HandlerStep(h)
    \/ \E state \in BackendStates : BackendChange(state)

Spec == Init /\ [][Next]_vars

\* One update in flight, of every kind.
NextHandler ==
    \/ \E u \in BotUpdates : Receive(1, u)
    \/ HandlerStep(1)
    \/ \E state \in BackendStates : BackendChange(state)

SpecHandler == Init /\ [][NextHandler]_vars

\* One function at a time: the bot stands still.
BotOff ==
    /\ pc = [h \in Handlers |-> "idle"]
    /\ update = [h \in Handlers |-> NoUpdate]
    /\ typing = [h \in Handlers |-> "none"]
    /\ calls = [h \in Handlers |-> <<>>]
    /\ exchange = [h \in Handlers |-> NoneV]
    /\ sent = [h \in Handlers |-> <<>>]
    /\ backend = "up"

\* ------------------------------------------------- call_bcn_api, on its own

Statuses == {200, 201, 302, 404, 500}

ResponseValues ==
    {JNull, JStr(<<>>), JStr(<<" ">>), JStr(<<"H", "i">>), JStr(BoldReply),
     JNum(0), JNum(42), JBigInt(MaxStrDigits), JBigInt(MaxStrDigits + 1),
     JBool(FALSE), JBool(TRUE), JArr(0), JArr(2), JBigArr, JDeepArr, JObj(0),
     JObj(1)}

\* The other members of an object body: none, one, one that is an integer too
\* long, one that is nested too deep.
OtherMembers == {JObj(0), JObj(1), JBigObj, JDeepObj}

TopValues ==
    {JNull, JStr(<<"H", "i">>), JNum(1), JBigInt(MaxStrDigits + 1), JBool(TRUE),
     JArr(0), JArr(1), JDeepArr}

ApiExchanges ==
    ClientErrors \cup {ConnectError, Timeout, Cancelled}
        \cup {UndecodableBody(st) : st \in Statuses}
        \cup {InvalidBody(st) : st \in Statuses}
        \cup {ObjectBody(st, NoneV, o) : st \in Statuses, o \in OtherMembers}
        \cup {ObjectBody(st, Some(v), o) :
                  st \in Statuses, v \in ResponseValues, o \in OtherMembers}
        \cup {ValueBody(st, v) : st \in Statuses, v \in TopValues}

ApiInputs ==
    [user_id : {"tg_alice", "tg_id_7"}, message : {<<"h", "i">>}, exch : ApiExchanges]

InitApi ==
    /\ BotOff
    /\ fn_pc = "ready"
    /\ fn_in \in ApiInputs
    /\ fn_out = <<>>

ApiCall ==
    /\ fn_pc = "ready"
    /\ fn_pc' = "done"
    /\ fn_out' = call_bcn_api(fn_in.user_id, fn_in.message, fn_in.exch)
    /\ UNCHANGED <<fn_in, bot_vars>>

NextApi == ApiCall

SpecApi == InitApi /\ [][NextApi]_vars

\* -------------------------------------------- _telegram_user_id, on its own

UidUsers ==
    {NoneV} \cup {Some(User(id, name, Some("Ana"))) :
                     id \in {7, 42}, name \in {NoneV, Some("alice"), Some("bob")}}

UidChats == {NoneV, Some(7), Some(0 - 100)}

UidUpdates == {Update("message", Some(<<"h", "i">>), 0, u, c) : u \in UidUsers, c \in UidChats}

\* Two updates, one after the other.
InitUid ==
    /\ BotOff
    /\ fn_pc = "ready"
    /\ fn_in \in [a : UidUpdates, b : UidUpdates]
    /\ fn_out = <<>>

UidCall ==
    /\ fn_pc = "ready"
    /\ fn_pc' = "done"
    /\ fn_out' = [a |-> _telegram_user_id(fn_in.a.user, fn_in.a.chat),
                  b |-> _telegram_user_id(fn_in.b.user, fn_in.b.chat)]
    /\ UNCHANGED <<fn_in, bot_vars>>

NextUid == UidCall

SpecUid == InitUid /\ [][NextUid]_vars

\* ----------------------------------------- _format_for_telegram, on its own

MaxTokens == 3

Tokens ==
    {<<"a">>, <<NL>>, <<NL, NL>>, <<" ">>, <<"\r">>, <<"1">>, <<"U+0663">>, <<".">>,
     <<"1", ".", " ">>, <<"*", "*">>, WhenLabel}

RECURSIVE Flatten(_)
Flatten(ts) == IF ts = <<>> THEN <<>> ELSE Head(ts) \o Flatten(Tail(ts))

TokenTexts == UNION {{Flatten(ts) : ts \in [1..k -> Tokens]} : k \in 0..MaxTokens}

BlankLinesExample == <<"a", NL, NL, NL, NL, "b">>

MarkersExample ==
    <<"*", "*", "T", "i", "t", "l", "e", "*", "*", NL, "1", ".", " ", "f", "o", "o", NL,
      "W", "h", "e", "n", ":", " ", "t", "o", "m", "o", "r", "r", "o", "w">>

FormatInputs == TokenTexts \cup {BlankLinesExample, MarkersExample}

InitFormat ==
    /\ BotOff
    /\ fn_pc = "ready"
    /\ fn_in \in FormatInputs
    /\ fn_out = <<>>

FormatCall ==
    /\ fn_pc = "ready"
    /\ fn_pc' = "done"
    /\ fn_out' = _format_for_telegram(fn_in)
    /\ UNCHANGED <<fn_in, bot_vars>>

NextFormat == FormatCall

SpecFormat == InitFormat /\ [][NextFormat]_vars

\* ------------------------- handle_message from the backend's text to the reply

PadSlack == 2

Pad(n) == [i \in 1..n |-> "a"]

\* What stands before and after the filling of a long text.
ReplyShapes ==
    {<<<<>>, <<>>>>,
     <<<<"*", "*", "G", "o", "*", "*", NL>>, <<>>>>,
     <<WhenLabel, <<NL, NL, NL, "1", ".", " ", "b">>>>,
     <<<<"1", ".", " ">>, <<" ", NL>>>>,
     <<<<NL, NL>>, PriceLabel>>,
     <<<<"x", NL, NL, NL, NL>>, <<"*", "*">>>>,
     <<LocationLabel \o <<" ">>, <<NL, "2", "1", ".", NL, "c">>>>,
     <<WhyYou \o <<":">>, MoreInfoLabel>>}

ReplyInputs ==
    {sh[1] \o Pad(n) \o sh[2] :
        sh \in ReplyShapes,
        n \in {0} \cup ((TelegramLimit - PadSlack)..(TelegramLimit + PadSlack))}

InitReply ==
    /\ BotOff
    /\ fn_pc = "ready"
    /\ fn_in \in ReplyInputs
    /\ fn_out = [formatted_text |-> <<>>, reply |-> <<>>]

\* formatted_text = _format_for_telegram(response_text)
ReplyFormat ==
    /\ fn_pc = "ready"
    /\ fn_pc' = "formatted"
    /\ fn_out' = [fn_out EXCEPT !.formatted_text = _format_for_telegram(fn_in)]
    /\ UNCHANGED <<fn_in, bot_vars>>

\* The truncation, and reply_text.
ReplySend ==
    /\ fn_pc = "formatted"
    /\ fn_pc' = "done"
    /\ fn_out' = [fn_out EXCEPT !.reply = Truncate(fn_out.formatted_text)]
    /\ UNCHANGED <<fn_in, bot_vars>>

NextReply == ReplyFormat \/ ReplySend

SpecReply == InitReply /\ [][NextReply]_vars

\* --------------------------------------------------------------- fairness

\* The event loop runs every handler that can go on, and every request to the
\* platform or to the backend ends (the backend's within its timeout).  The
\* first handler is left without fairness: its exchange may stay pending for
\* as long as it likes.
FairSpec == Init /\ [][Next]_vars /\ \A h \in Handlers \ {1} : WF_vars(HandlerStep(h))

\* ------------------------------------------------------- properties: C1, C5

\* The exchange fails: the client cannot be built, no connection, a timeout, a
\* status outside 2xx, or a body that resp.json() does not turn into an object.
C1_Failure(exch) ==
    \/ exch.kind \in {"client_error", "connect_error", "timeout"}
    \/ exch.status \notin 200..299
    \/ exch.body \in {"undecodable", "invalid", "value"}
    \/ ParseJson(exch).exc # ""

\* C1 as the specification states it: call_bcn_api never propagates a failure.
\* Whenever the exchange fails, the call lets no exception out and returns the
\* apology string.
C1_FailSoft ==
    (fn_pc = "done" /\ C1_Failure(fn_in.exch)) =>
        /\ fn_out.exc = ""
        /\ fn_out.value = JStr(Apology)

\* A `response` member that counts as empty: null, "", 0, false, [] or {}.
C5_Empty(v) == v \in {JNull, JStr(<<>>), JNum(0), JBool(FALSE), JArr(0), JObj(0)}

\* The value of `response` when the body is an object that has a `response`
\* member that is not empty, the literal "No response from BCN Art Compass."
\* otherwise.
C5_Expected(exch) ==
    IF exch.body = "object" /\ exch.response # NoneV /\ ~C5_Empty(exch.response[1])
    THEN Returned(exch.response[1])
    ELSE Returned(JStr(NoResponse))

\* C5 as the specification states it: on a 2xx exchange whose body is JSON,
\* call_bcn_api returns the value of `response` when it is present and not
\* empty, and the literal "No response from BCN Art Compass." whenever it is
\* missing or empty; never the apology.
C5_Original ==
    (/\ fn_pc = "done"
     /\ fn_in.exch.kind = "response"
     /\ fn_in.exch.status \in 200..299
     /\ fn_in.exch.body \in {"object", "value"})
        => fn_out = C5_Expected(fn_in.exch)

\* C5 for the bodies that resp.json() turns into an object: on a 2xx exchange
\* for which resp.json() returns a JSON object, call_bcn_api returns the value
\* of `response` when it is present and not empty, and the literal "No response
\* from BCN Art Compass." when it is missing or empty, never the apology; on a
\* 2xx exchange for which resp.json() raises or returns another value, it
\* returns the apology.
C5_Amended ==
    (/\ fn_pc = "done"
     /\ fn_in.exch.kind = "response"
     /\ fn_in.exch.status \in 200..299)
        => IF fn_in.exch.body = "object" /\ ParseJson(fn_in.exch).exc = ""
           THEN fn_out = C5_Expected(fn_in.exch)
           ELSE fn_out = Returned(JStr(Apology))

\* A 201 response with an empty `response` has been answered by the literal.
C5_Witness ==
    /\ fn_pc = "done"
    /\ fn_in.exch.status = 201
    /\ fn_in.exch.body = "object"
    /\ fn_in.exch.response = Some(JStr(<<>>))
    /\ fn_out.value = JStr(NoResponse)

\* ----------------------------------------------------------- properties: C6

\* The identifier the fallback chain gives the update: username, then numeric
\* id, then chat id, then "tg_unknown".
C6_Chain(u, id) ==
    IF u.user # NoneV /\ u.user[1].username # NoneV
    THEN id = "tg_" \o u.user[1].username[1]
    ELSE IF u.user # NoneV THEN id = "tg_id_" \o ToString(u.user[1].id)
    ELSE IF u.chat # NoneV THEN id = "tg_chat_" \o ToString(u.chat[1])
    ELSE id = "tg_unknown"

\* Two updates of one platform user: the same numeric user id.
C6_SameUser(a, b) == a.user # NoneV /\ b.user # NoneV /\ a.user[1].id = b.user[1].id

\* C6 as the specification states it: _telegram_user_id follows the chain
\* username, numeric id, chat id, "tg_unknown", and gives two updates of the
\* same platform user the same identifier.
C6_Claim ==
    fn_pc = "done" =>
        /\ C6_Chain(fn_in.a, fn_out.a)
        /\ C6_Chain(fn_in.b, fn_out.b)
        /\ C6_SameUser(fn_in.a, fn_in.b) => fn_out.a = fn_out.b

\* ------------------------------------------------------ properties: C10, C4

\* The text has a run of three newlines.
C10_BlankRun(s) == \E i \in 1..(Len(s) - 2) : s[i] = NL /\ s[i + 1] = NL /\ s[i + 2] = NL

\* C10: the text _format_for_telegram returns has no run of three or more
\* newlines, also where the numbered-list rewrite put a newline before a line,
\* and "a\n\n\n\nb" becomes "a\n\nb".
C10_NoBlankRuns ==
    fn_pc = "done" =>
        /\ ~C10_BlankRun(fn_out)
        /\ fn_in = BlankLinesExample => fn_out = <<"a", NL, NL, "b">>

\* The list rewrite made a run of three newlines that the text did not have,
\* and the text returned keeps two of them.
C10_Witness ==
    /\ fn_pc = "done"
    /\ ~C10_BlankRun(fn_in)
    /\ C10_BlankRun(SubList(fn_in))
    /\ \E i \in 1..(Len(fn_out) - 1) : fn_out[i] = NL /\ fn_out[i + 1] = NL

\* C4: a reply of handle_message has at most 4000 characters: a formatted text
\* of more than 4000 characters is cut to its first 3996 characters followed by
\* "..." (3999 characters), a text of 4000 characters or fewer is sent as it is.
C4_ReplyLength ==
    fn_pc = "done" =>
        LET f == fn_out.formatted_text
            r == fn_out.reply
        IN  /\ Len(r) <= 4000
            /\ Len(f) > 4000 =>
                   /\ Len(r) = 3999
                   /\ \A i \in 1..3996 : r[i] = f[i]
                   /\ \A i \in 3997..3999 : r[i] = "."
            /\ Len(f) <= 4000 => r = f

\* A formatted text of 4001 characters has been cut to 3999.
C4_Witness ==
    /\ fn_pc = "done"
    /\ Len(fn_out.formatted_text) = 4001
    /\ Len(fn_out.reply) = 3999

\* ----------------------------------------------- properties: C2, C3, C7, C8

\* The update of handler h went to handle_message and carries text.
CarriesText(h) ==
    /\ Route(update[h]) = "handle_message"
    /\ update[h].kind = "message"
    /\ update[h].text # NoneV
    /\ update[h].text[1] # <<>>

\* C2 as the specification states it: a free-text update that carries text is
\* answered with exactly one reply, whatever the backend does: no handler hands
\* more than one reply to reply_text, and a handler that has ended has handed
\* it one.
C2_ExactlyOneReply ==
    \A h \in Handlers :
        CarriesText(h) =>
            /\ Len(sent[h]) <= 1
            /\ pc[h] \in Finished => Len(sent[h]) = 1

\* C3 as the specification states it: a typing indicator that fails does not
\* keep handle_message from calling the backend and from handing its reply to
\* reply_text.
C3_TypingBestEffort ==
    \A h \in Handlers :
        (typing[h] = "failed" /\ pc[h] \in Finished) =>
            /\ Len(calls[h]) = 1
            /\ Len(sent[h]) = 1

\* C7 as the specification states it: the handler of a /start or /help update
\* hands its fixed message to reply_text, in every state of the backend, and
\* without a call of the backend.
C7_CommandsAlwaysReply ==
    \A h \in Handlers :
        Route(update[h]) \in {"start", "help"} =>
            /\ calls[h] = <<>>
            /\ pc[h] \in Finished =>
                   /\ Len(sent[h]) = 1
                   /\ sent[h][1].text = IF Route(update[h]) = "start"
                                        THEN StartMessage(update[h].user)
                                        ELSE HelpMessage

\* The update has no message, or its text is missing or empty.
C8_NoText(u) == u.kind # "message" \/ u.text = NoneV \/ u.text = Some(<<>>)

\* C8: handle_message does nothing for an update without a message or without
\* text (no typing indicator, no backend call, no reply, no error), and the
\* backend is called only for updates whose text is not empty.
C8_IgnoredIsNoOp ==
    \A h \in Handlers :
        /\ (Route(update[h]) = "handle_message" /\ C8_NoText(update[h])) =>
               /\ typing[h] = "none"
               /\ calls[h] = <<>>
               /\ sent[h] = <<>>
               /\ pc[h] # "raised"
        /\ calls[h] # <<>> => ~C8_NoText(update[h])

\* handle_message has returned from an edit, which has no message.
C8_Witness ==
    \E h \in Handlers :
        /\ pc[h] = "done"
        /\ Route(update[h]) = "handle_message"
        /\ update[h].kind = "edited_message"
        /\ typing[h] = "none"

\* ----------------------------------------------------------- properties: C9

\* The request and the reply of handler h are the ones its own update and the
\* answer to its own request make.
C9_OwnReply(h) ==
    /\ calls[h] # <<>> =>
           calls[h] = <<Payload(_telegram_user_id(update[h].user, update[h].chat),
                                Strip(update[h].text[1]))>>
    /\ (Route(update[h]) = "handle_message" /\ sent[h] # <<>>) =>
           /\ exchange[h] # NoneV
           /\ sent[h] = <<[chat |-> update[h].chat,
                           text |-> ReplyText(call_bcn_api(calls[h][1].user_id,
                                                           calls[h][1].message,
                                                           exchange[h][1]).value.str)]>>

\* C9: handlers are independent.  The reply to an update depends on that update
\* and on the backend's answer to its own request alone, and an update that was
\* received is handled to its end even if the first handler never hears from
\* the backend again.
C9_Independent ==
    /\ [](\A h \in Handlers : C9_OwnReply(h))
    /\ \A h \in Handlers \ {1} : (pc[h] = "pending") ~> (pc[h] \in Ended)

\* A handler has replied from the backend's answer while the first one waits.
C9_Witness ==
    /\ pc[1] = "await"
    /\ \E h \in Handlers \ {1} :
           /\ pc[h] = "done"
           /\ CarriesText(h)
           /\ Len(sent[h]) = 1

====
